---- MODULE Spec2Model ----
(***************************************************************************)
(* Model of the market-maker quoting client                                *)
(* bouncer/chainflip-io/packages/swap/python-client/quoter.py (class       *)
(* Quoter) and of its caller mock.py.                                      *)
(*                                                                         *)
(* One Quoter instance.  Every connect() call creates a fresh              *)
(* socketio.AsyncClient (a "client", numbered 1, 2, ...) and stores it in  *)
(* self.sio.  The gateway, the transport and the integrator's handler are  *)
(* the environment: they confirm or refuse a handshake, drop or close a    *)
(* channel, reconnect a dropped channel (AsyncClient() is created with its *)
(* default reconnection), push quote_request events and resolve or fail    *)
(* on_quote_request.  Every coroutine is cut at its await points.          *)
(***************************************************************************)
EXTENDS Integers, Sequences, FiniteSets, TLC

\* ---- bounds ------------------------------------------------------------
MaxClients == 2      \* connect() calls (AsyncClient objects) per run
MaxReqs == 2         \* quote_request events per run
MaxSessions == 2     \* handshakes confirmed per run, reconnects included
MaxClock == 1        \* largest reading of the millisecond clock in a session run
MaxTimestamp == 12   \* largest timestamp signed in a signing run
MaxObjects == 2      \* Quoter objects in a two-object run
MaxObjectClients == 2  \* AsyncClient objects per Quoter object in such a run

Clients == 1..MaxClients
None == 0

\* ---- data --------------------------------------------------------------
RequiredKeys == {"id", "source_asset", "destination_asset", "deposit_amount"}
Ids == {"a", "b"}
\* what an integrator's on_quote_request may return
AmountPairs == {<<"100", "200">>, <<"2000000000", "1000000000000000000">>}

WireValue(k, id) ==
    CASE k = "id" -> id
      [] k = "source_asset" -> "BTC"
      [] k = "destination_asset" -> "ETH"
      [] OTHER -> "1000"

\* a quote_request payload with the given id and the keys in `missing` absent
Payload(id, missing) == [k \in RequiredKeys \ missing |-> WireValue(k, id)]

Payloads ==
    {Payload(id, {}) : id \in Ids}
    \cup {Payload("a", {k}) : k \in RequiredKeys}

VARIABLES
    connected,       \* Quoter.connected
    sio,             \* Quoter.sio: None or the current AsyncClient
    chan,            \* chan[c]: state of AsyncClient c's channel
    sessions,        \* sessions[c]: handshakes the channel layer confirmed on c
    call,            \* call[c]: position of the connect() call that created c
    waitOn,          \* waitOn[c]: the client that call awaits in sio.wait()
    raised,          \* raised[c]: what that connect() call raised to its caller
    onConnectCalls,  \* onConnectCalls[c]: on_connect invocations by c's handler
    hookSawFlag,     \* hookSawFlag[c]: connected was true at each of them
    discOn,          \* None, or the client a running disconnect() is closing
    reqs,            \* one record per quote_request event, in order of receipt
    emitted,         \* the sio.emit("quote_response", ...) calls, in order
    auth,            \* auth[c]: the auth dict connect() built for client c
    presented,       \* presented[c]: the auth of each handshake confirmed on c
    signIn,          \* two (market_maker_id, timestamp, key) inputs of signing
    signOut,         \* the message and signature computed for each of them
    klass,           \* the attributes of class Quoter
    inst             \* inst[i]: the attributes and channel of Quoter object i

vars == <<connected, sio, chan, sessions, call, waitOn, raised,
          onConnectCalls, hookSawFlag, discOn, reqs, emitted, auth, presented,
          signIn, signOut, klass, inst>>

ChanStates == {"none", "new", "connecting", "open", "lost", "closing", "closed",
               "remote_closed"}
CallStates == {"none", "connecting", "waiting", "returned", "failed"}
ReqStates == {"handling", "decode_failed", "handler_failed", "sent"}

\* ---- signing -----------------------------------------------------------
Digits == <<"0", "1", "2", "3", "4", "5", "6", "7", "8", "9">>

\* str(timestamp) for a non-negative int
RECURSIVE DecStr(_)
DecStr(n) ==
    IF n < 10 THEN <<Digits[n + 1]>>
    ELSE DecStr(n \div 10) \o <<Digits[(n % 10) + 1]>>

\* the UTF-8 byte of one ASCII character
Utf8Byte(ch) ==
    CASE ch = "m" -> 109
      [] ch = "x" -> 120
      [] OTHER -> 48 + ((CHOOSE k \in 1..10 : Digits[k] = ch) - 1)

\* bytes(text, "utf-8") for ASCII text
Utf8(text) == [k \in 1..Len(text) |-> Utf8Byte(text[k])]

\* variant: the timestamp is left out of the signed message
SignedMessage_idOnly(market_maker_id, timestamp) == Utf8(market_maker_id)

\* variant: the identity is left out of the signed message
SignedMessage_timestampOnly(market_maker_id, timestamp) ==
    Utf8(DecStr(timestamp))

\* b"%b%b" % (bytes(market_maker_id, "utf-8"), bytes(str(timestamp), "utf-8"))
SignedMessage(market_maker_id, timestamp) ==
    Utf8(market_maker_id) \o Utf8(DecStr(timestamp))

\* private_key.sign(message): Ed25519 is deterministic; the signature stands
\* for the pair it is computed from (no two pairs share a signature)
sign(key, message) == [key |-> key, message |-> message]

\* base64.b64encode(signature).decode("utf-8"), an injective encoding
B64(signature) == <<"b64", signature>>

\* the auth dict of lines 78-83
AuthDict(market_maker_id, timestamp, key) ==
    [client_version |-> "1",
     timestamp |-> timestamp,
     market_maker_id |-> market_maker_id,
     signature |-> B64(sign(key, SignedMessage(market_maker_id, timestamp)))]

\* the identity and key one session run connects with
SessionId == <<"m", "m", "1">>
SessionKey == "k1"

\* ---- initial states ----------------------------------------------------
Objects == 1..MaxObjects

\* class Quoter: connected = False, sio = None
ClassAttrs == [connected |-> FALSE, sio |-> None]

\* a Quoter object right after construction: no attribute of its own
NewObject == [connected |-> <<>>, sio |-> <<>>, chan |-> "none", made |-> 0]

SignIdle == signIn = <<>> /\ signOut = <<>>

ObjectsIdle == klass = ClassAttrs /\ inst = [i \in Objects |-> NewObject]

\* the Quoter object of a session run right after construction
SessionIdle ==
    /\ auth = [c \in Clients |-> <<>>]
    /\ presented = [c \in Clients |-> <<>>]
    /\ connected = FALSE
    /\ sio = None
    /\ chan = [c \in Clients |-> "none"]
    /\ sessions = [c \in Clients |-> 0]
    /\ call = [c \in Clients |-> "none"]
    /\ waitOn = [c \in Clients |-> None]
    /\ raised = [c \in Clients |-> "none"]
    /\ onConnectCalls = [c \in Clients |-> 0]
    /\ hookSawFlag = [c \in Clients |-> TRUE]
    /\ discOn = None
    /\ reqs = <<>>
    /\ emitted = <<>>

Init == SessionIdle /\ SignIdle /\ ObjectsIdle

\* ---- Quote and the response -------------------------------------------
\* Quote.__init__ raises KeyError when a key it reads is absent
QuoteRaises(json) == \E k \in RequiredKeys : k \notin DOMAIN json

Quote(json) ==
    [id |-> json["id"],
     source_asset |-> json["source_asset"],
     destination_asset |-> json["destination_asset"],
     deposit_amount |-> json["deposit_amount"]]

\* variant: the two amounts change places
Response_swapped(quote, amounts) ==
    [id |-> quote.id,
     intermediate_amount |-> amounts[2],
     egress_amount |-> amounts[1]]

\* the dict quote_request() hands to send_quote
Response(quote, amounts) ==
    [id |-> quote.id,
     intermediate_amount |-> amounts[1],
     egress_amount |-> amounts[2]]

InFlight == {r \in 1..Len(reqs) : reqs[r].status = "handling"}

\* ---- connect() ---------------------------------------------------------
NextClient == Cardinality({c \in Clients : chan[c] # "none"}) + 1

RECURSIVE SumOver(_, _)
SumOver(f, S) ==
    IF S = {} THEN 0
    ELSE LET x == CHOOSE y \in S : TRUE IN f[x] + SumOver(f, S \ {x})

TotalSessions == SumOver(sessions, Clients)

\* the private_key_bytes and password arguments of connect()
KeyKinds == {"plain", "encrypted", "malformed"}
Passwords == {"none", "right", "wrong"}

\* load_pem_private_key(private_key_bytes, password=password) returns a key
LoadsKey(key, password) ==
    \/ key = "plain" /\ password = "none"
    \/ key = "encrypted" /\ password = "right"

\* variant: the key is loaded only after the channel connect was attempted
SigningFails_late(c) ==
    /\ chan' = [chan EXCEPT ![c] = "closed"]
    /\ call' = [call EXCEPT ![c] = "failed"]
    /\ raised' = [raised EXCEPT ![c] = "SigningError"]

\* load_pem_private_key(...).sign(...) raises: nothing after it runs
SigningFails(c) ==
    /\ chan' = [chan EXCEPT ![c] = "new"]
    /\ call' = [call EXCEPT ![c] = "failed"]
    /\ raised' = [raised EXCEPT ![c] = "SigningError"]

SigningSucceeds(c) ==
    /\ chan' = [chan EXCEPT ![c] = "connecting"]
    /\ call' = [call EXCEPT ![c] = "connecting"]
    /\ raised' = raised

\* round(time.time() * 1000): milliseconds are counted from the first
\* reading that is signed, and the clock does not run backwards
ClockReadings ==
    IF \A d \in Clients : auth[d] = <<>> THEN {0}
    ELSE {t \in 0..MaxClock :
            \A d \in Clients : auth[d] # <<>> => auth[d][1].timestamp <= t}

\* connect(): lines 50-85 up to the suspension in `await self.sio.connect`
connect(keyOk) ==
    /\ NextClient <= MaxClients
    /\ LET c == NextClient IN
        /\ sio' = c
        /\ IF keyOk
           THEN /\ SigningSucceeds(c)
                /\ \E timestamp \in ClockReadings :
                    auth' = [auth EXCEPT
                        ![c] = <<AuthDict(SessionId, timestamp, SessionKey)>>]
           ELSE /\ SigningFails(c)
                /\ auth' = auth
    /\ UNCHANGED <<connected, sessions, waitOn, onConnectCalls, hookSawFlag,
                   discOn, reqs, emitted>>
    /\ UNCHANGED <<presented, signIn, signOut, klass, inst>>

\* Quoter.on_connect, called by the connect event handler
on_connect(c) ==
    /\ onConnectCalls' = [onConnectCalls EXCEPT ![c] = @ + 1]
    /\ hookSawFlag' = [hookSawFlag EXCEPT ![c] = @ /\ connected']

\* the `connect` event handler registered on client c
connect_event(c) ==
    /\ connected' = TRUE
    /\ on_connect(c)

\* a handshake of client c presents the auth dict given to sio.connect; the
\* AsyncClient keeps that dict and presents it again when it reconnects
PresentAuth(c) ==
    presented' = [presented EXCEPT ![c] = Append(@, auth[c][1])]

\* the gateway accepts the handshake of client c: the channel layer runs the
\* connect event handler, `await self.sio.connect(...)` returns and connect()
\* goes on to `await self.sio.wait()`, reading self.sio again
ChannelConfirm(c) ==
    /\ chan[c] = "connecting"
    /\ call[c] = "connecting"
    /\ TotalSessions < MaxSessions
    /\ chan' = [chan EXCEPT ![c] = "open"]
    /\ sessions' = [sessions EXCEPT ![c] = @ + 1]
    /\ call' = [call EXCEPT ![c] = "waiting"]
    /\ waitOn' = [waitOn EXCEPT ![c] = sio]
    /\ connect_event(c)
    /\ UNCHANGED <<sio, raised, discOn, reqs, emitted>>
    /\ PresentAuth(c)
    /\ UNCHANGED <<auth, signIn, signOut, klass, inst>>

\* the handshake is not confirmed (wait_timeout elapses, or the gateway
\* rejects): sio.connect raises, connect() has no handler for it
\* variant: connect() catches the error of sio.connect and returns normally
ConnectRaises_swallowed(c, why) ==
    /\ why \in {"timeout", "rejected"}
    /\ call' = [call EXCEPT ![c] = "failed"]
    /\ raised' = raised

ConnectRaises(c, why) ==
    /\ why \in {"timeout", "rejected"}
    /\ call' = [call EXCEPT ![c] = "failed"]
    /\ raised' = [raised EXCEPT ![c] = "ConnectionError"]

ConnectFails(c, why) ==
    /\ chan[c] = "connecting"
    /\ call[c] = "connecting"
    /\ chan' = [chan EXCEPT ![c] = "closed"]
    /\ ConnectRaises(c, why)
    /\ UNCHANGED <<connected, sio, sessions, waitOn, onConnectCalls,
                   hookSawFlag, discOn, reqs, emitted>>
    /\ UNCHANGED <<auth, presented, signIn, signOut, klass, inst>>

\* sio.wait() returns once the awaited client has no live or reconnecting
\* channel
WaitReturns(c) ==
    /\ call[c] = "waiting"
    /\ chan[waitOn[c]] \in {"new", "closed", "remote_closed"}
    /\ call' = [call EXCEPT ![c] = "returned"]
    /\ UNCHANGED <<connected, sio, chan, sessions, waitOn, raised,
                   onConnectCalls, hookSawFlag, discOn, reqs, emitted>>
    /\ UNCHANGED <<auth, presented, signIn, signOut, klass, inst>>

\* ---- channel events no handler is registered for -----------------------
\* abrupt loss of the transport: the AsyncClient starts reconnecting
ChannelLoss(c) ==
    /\ chan[c] = "open"
    /\ chan' = [chan EXCEPT ![c] = "lost"]
    /\ UNCHANGED <<connected, sio, sessions, call, waitOn, raised,
                   onConnectCalls, hookSawFlag, discOn, reqs, emitted>>
    /\ UNCHANGED <<auth, presented, signIn, signOut, klass, inst>>

\* graceful close by the gateway: no reconnection
FarEndClose(c) ==
    /\ chan[c] = "open"
    /\ chan' = [chan EXCEPT ![c] = "remote_closed"]
    /\ UNCHANGED <<connected, sio, sessions, call, waitOn, raised,
                   onConnectCalls, hookSawFlag, discOn, reqs, emitted>>
    /\ UNCHANGED <<auth, presented, signIn, signOut, klass, inst>>

\* the AsyncClient re-establishes a lost channel and signals connect again
Reconnect(c) ==
    /\ chan[c] = "lost"
    /\ TotalSessions < MaxSessions
    /\ chan' = [chan EXCEPT ![c] = "open"]
    /\ sessions' = [sessions EXCEPT ![c] = @ + 1]
    /\ connect_event(c)
    /\ UNCHANGED <<sio, call, waitOn, raised, discOn, reqs, emitted>>
    /\ PresentAuth(c)
    /\ UNCHANGED <<auth, signIn, signOut, klass, inst>>

\* ---- disconnect() ------------------------------------------------------
\* variant: the guard forgets the connected flag
disconnect_guard_unflagged == sio # None

disconnect_guard == connected /\ sio # None

\* disconnect() up to the suspension in `await self.sio.disconnect()`
disconnect ==
    /\ discOn = None
    /\ disconnect_guard
    /\ discOn' = sio
    /\ chan' = [chan EXCEPT ![sio] =
                    IF @ \in {"open", "lost"} THEN "closing" ELSE @]
    /\ reqs' = [r \in 1..Len(reqs) |->
                    IF r \in InFlight
                    THEN [reqs[r] EXCEPT !.discInvoked = TRUE]
                    ELSE reqs[r]]
    /\ UNCHANGED <<connected, sio, sessions, call, waitOn, raised,
                   onConnectCalls, hookSawFlag, emitted>>
    /\ UNCHANGED <<auth, presented, signIn, signOut, klass, inst>>

\* disconnect() when the guard of line 89 is false: the method returns
disconnect_noop ==
    /\ ~disconnect_guard
    /\ UNCHANGED vars

\* the channel close completes and disconnect() resumes at line 91
disconnect_resumes ==
    /\ discOn # None
    /\ chan' = [chan EXCEPT ![discOn] = IF @ = "closing" THEN "closed" ELSE @]
    /\ connected' = FALSE
    /\ discOn' = None
    /\ UNCHANGED <<sio, sessions, call, waitOn, raised, onConnectCalls,
                   hookSawFlag, reqs, emitted>>
    /\ UNCHANGED <<auth, presented, signIn, signOut, klass, inst>>

\* ---- quote_request -----------------------------------------------------
NewRequest(c, data) ==
    [data |-> data,
     client |-> c,
     session |-> sessions[c],
     status |-> IF QuoteRaises(data) THEN "decode_failed" ELSE "handling",
     result |-> <<>>,
     discInvoked |-> FALSE,
     peers |-> {}]

\* variant: a payload that does not decode ends the session
quote_request_fatal(c, data) ==
    /\ chan[c] = "open"
    /\ Len(reqs) < MaxReqs
    /\ reqs' = Append(reqs, NewRequest(c, data))
    /\ connected' = IF QuoteRaises(data) THEN FALSE ELSE connected
    /\ UNCHANGED <<sio, chan, sessions, call, waitOn, raised,
                   onConnectCalls, hookSawFlag, discOn, emitted>>
    /\ UNCHANGED <<auth, presented, signIn, signOut, klass, inst>>

\* variant: an event is taken up only when no handler is in flight
quote_request_serial(c, data) ==
    /\ chan[c] = "open"
    /\ Len(reqs) < MaxReqs
    /\ InFlight = {}
    /\ reqs' = Append(reqs, NewRequest(c, data))
    /\ UNCHANGED <<connected, sio, chan, sessions, call, waitOn, raised,
                   onConnectCalls, hookSawFlag, discOn, emitted>>
    /\ UNCHANGED <<auth, presented, signIn, signOut, klass, inst>>

\* the quote_request event handler up to `await self.on_quote_request(quote)`
quote_request(c, data) ==
    /\ chan[c] = "open"
    /\ Len(reqs) < MaxReqs
    /\ reqs' = Append(reqs, NewRequest(c, data))
    /\ UNCHANGED <<connected, sio, chan, sessions, call, waitOn, raised,
                   onConnectCalls, hookSawFlag, discOn, emitted>>
    /\ UNCHANGED <<auth, presented, signIn, signOut, klass, inst>>

\* what one sio.emit("quote_response", response) call is recorded as
Emission(r, response) ==
    [req |-> r,
     response |-> response,
     client |-> sio,
     session |-> sessions[sio],
     open |-> chan[sio] = "open",
     discInvoked |-> reqs[r].discInvoked]

\* variant: the gate forgets the connected flag
send_quote_guard_unflagged == sio # None

send_quote_guard == connected /\ sio # None

\* variant: the emit is repeated
send_quote_twice(r, response) ==
    emitted' = IF send_quote_guard
               THEN Append(Append(emitted, Emission(r, response)),
                           Emission(r, response))
               ELSE emitted

\* Quoter.send_quote, called for request r
send_quote(r, response) ==
    emitted' = IF send_quote_guard
               THEN Append(emitted, Emission(r, response))
               ELSE emitted

\* on_quote_request for request r returns `amounts`; quote_request() goes on
\* to send_quote without suspending in between
on_quote_request_returns(r, amounts) ==
    /\ r \in InFlight
    /\ reqs' = [reqs EXCEPT ![r].status = "sent",
                            ![r].result = amounts]
    /\ send_quote(r, Response(Quote(reqs[r].data), amounts))
    /\ UNCHANGED <<connected, sio, chan, sessions, call, waitOn, raised,
                   onConnectCalls, hookSawFlag, discOn>>
    /\ UNCHANGED <<auth, presented, signIn, signOut, klass, inst>>

\* variant: a failing handler takes the session down
on_quote_request_raises_fatal(r) ==
    /\ r \in InFlight
    /\ reqs' = [reqs EXCEPT ![r].status = "handler_failed",
                            ![r].peers = InFlight \ {r}]
    /\ connected' = FALSE
    /\ UNCHANGED <<sio, chan, sessions, call, waitOn, raised,
                   onConnectCalls, hookSawFlag, discOn, emitted>>
    /\ UNCHANGED <<auth, presented, signIn, signOut, klass, inst>>

\* on_quote_request for request r raises: the exception ends that event's
\* task
on_quote_request_raises(r) ==
    /\ r \in InFlight
    /\ reqs' = [reqs EXCEPT ![r].status = "handler_failed",
                            ![r].peers = InFlight \ {r}]
    /\ UNCHANGED <<connected, sio, chan, sessions, call, waitOn, raised,
                   onConnectCalls, hookSawFlag, discOn, emitted>>
    /\ UNCHANGED <<auth, presented, signIn, signOut, klass, inst>>

Next ==
    \/ \E key \in KeyKinds, password \in Passwords :
          connect(LoadsKey(key, password))
    \/ \E c \in Clients : ChannelConfirm(c)
    \/ \E c \in Clients, why \in {"timeout", "rejected"} : ConnectFails(c, why)
    \/ \E c \in Clients : WaitReturns(c)
    \/ \E c \in Clients : ChannelLoss(c)
    \/ \E c \in Clients : FarEndClose(c)
    \/ \E c \in Clients : Reconnect(c)
    \/ disconnect
    \/ disconnect_noop
    \/ disconnect_resumes
    \/ \E c \in Clients, data \in Payloads : quote_request(c, data)
    \/ \E r \in 1..MaxReqs, amounts \in AmountPairs :
          on_quote_request_returns(r, amounts)
    \/ \E r \in 1..MaxReqs : on_quote_request_raises(r)

Spec == Init /\ [][Next]_vars

\* ---- signing runs: lines 69-74 applied to two inputs --------------------
sessionVars == <<connected, sio, chan, sessions, call, waitOn, raised,
                 onConnectCalls, hookSawFlag, discOn, reqs, emitted, auth,
                 presented>>

SignIds == {<<"m">>, <<"m", "1">>, <<"m", "x">>, <<"x">>}
SignKeys == {"k1", "k2"}
SignInputs == [id : SignIds, timestamp : 0..MaxTimestamp, key : SignKeys]

SignInit ==
    /\ SessionIdle
    /\ ObjectsIdle
    /\ signIn \in SignInputs \X SignInputs
    /\ signOut = <<>>

\* lines 69-74 and 82 for one (market_maker_id, timestamp, key)
Signed(in) ==
    [message |-> SignedMessage(in.id, in.timestamp),
     signature |-> B64(sign(in.key, SignedMessage(in.id, in.timestamp)))]

sign_inputs ==
    /\ signIn # <<>>
    /\ signOut = <<>>
    /\ signOut' = [k \in 1..2 |-> Signed(signIn[k])]
    /\ UNCHANGED <<sessionVars, signIn, klass, inst>>

SignNext == sign_inputs

SpecSign == SignInit /\ [][SignNext]_vars

\* ---- two-object runs: the attribute assignments of two Quoter objects ----
\* reading self.<name>: the object's own attribute, else the class attribute
GetAttr(i, name) ==
    IF inst[i][name] # <<>> THEN inst[i][name][1] ELSE klass[name]

\* variant: the assignment goes to the class attribute
Assign_class(st, i, name, value) == [st EXCEPT !.klass[name] = value]

\* self.<name> = value on object i: the attribute is created on the object
Assign(st, i, name, value) == [st EXCEPT !.inst[i][name] = <<value>>]

Attrs == [klass |-> klass, inst |-> inst]

\* the n-th AsyncClient object i creates
ObjectClient(i, n) == i * (MaxObjectClients + 1) + n

\* connect() on object i: line 50, then the handshake is under way
ObjConnect(i) ==
    /\ inst[i].made < MaxObjectClients
    /\ LET st == Assign(Attrs, i, "sio", ObjectClient(i, inst[i].made + 1))
       IN /\ klass' = st.klass
          /\ inst' = [st.inst EXCEPT ![i].chan = "connecting",
                                     ![i].made = @ + 1]
    /\ UNCHANGED <<sessionVars, signIn, signOut>>

\* the connect event handler of object i: line 54
ObjConnectEvent(i) ==
    /\ inst[i].chan = "connecting"
    /\ LET st == Assign(Attrs, i, "connected", TRUE)
       IN /\ klass' = st.klass
          /\ inst' = [st.inst EXCEPT ![i].chan = "open"]
    /\ UNCHANGED <<sessionVars, signIn, signOut>>

\* the handshake of object i is not confirmed
ObjConnectFails(i) ==
    /\ inst[i].chan = "connecting"
    /\ inst' = [inst EXCEPT ![i].chan = "closed"]
    /\ UNCHANGED <<sessionVars, signIn, signOut, klass>>

\* the gateway closes the channel of object i
ObjFarEndClose(i) ==
    /\ inst[i].chan = "open"
    /\ inst' = [inst EXCEPT ![i].chan = "closed"]
    /\ UNCHANGED <<sessionVars, signIn, signOut, klass>>

\* disconnect() on object i: lines 89-91
ObjDisconnect(i) ==
    /\ GetAttr(i, "connected")
    /\ GetAttr(i, "sio") # None
    /\ LET st == Assign(Attrs, i, "connected", FALSE)
       IN /\ klass' = st.klass
          /\ inst' = [st.inst EXCEPT ![i].chan =
                        IF @ = "open" THEN "closed" ELSE @]
    /\ UNCHANGED <<sessionVars, signIn, signOut>>

ObjectsInit == SessionIdle /\ SignIdle /\ ObjectsIdle

ObjectsNext ==
    \/ \E i \in Objects : ObjConnect(i)
    \/ \E i \in Objects : ObjConnectEvent(i)
    \/ \E i \in Objects : ObjConnectFails(i)
    \/ \E i \in Objects : ObjFarEndClose(i)
    \/ \E i \in Objects : ObjDisconnect(i)

SpecObjects == ObjectsInit /\ [][ObjectsNext]_vars

\* ---- helpers of the properties -----------------------------------------
Emissions == 1..Len(emitted)
Requests == 1..Len(reqs)
EmissionsOf(r) == {i \in Emissions : emitted[i].req = r}

\* C1: once disconnect() has been invoked while the handler of a request is
\* in flight, no quote_response is emitted for that request, in whatever way
\* the handler's completion interleaves with disconnect().
Claim_C1 == \A i \in Emissions : ~emitted[i].discInvoked

\* C2: a quote_response for a request received during one session is never
\* emitted on another session of the instance: every emit that reaches an
\* open channel reaches the client and session its request came from.
Claim_C2 ==
    \A i \in Emissions :
        emitted[i].open =>
            /\ emitted[i].client = reqs[emitted[i].req].client
            /\ emitted[i].session = reqs[emitted[i].req].session

\* C3: after a channel-level disconnect the client did not initiate (abrupt
\* loss or graceful close by the far end) connected is false.
Claim_C3 ==
    (sio # None /\ chan[sio] \in {"lost", "remote_closed"}) => ~connected

\* C4: a connect() attempt the channel does not confirm raises to its
\* caller, its connect event handler never runs (it neither sets connected
\* nor calls on_connect), and connected is true only if another attempt of
\* the instance was confirmed.
Thm_C4 ==
    \A c \in Clients :
        (call[c] = "failed" /\ chan[c] = "closed") =>
            /\ raised[c] = "ConnectionError"
            /\ sessions[c] = 0
            /\ onConnectCalls[c] = 0
            /\ connected => \E d \in Clients \ {c} : sessions[d] > 0

Wit_C4 ==
    \E c \in Clients :
        call[c] = "failed" /\ chan[c] = "closed" /\ sio = c /\ ~connected

\* C5: for each successful connect() call on_connect is invoked exactly
\* once, reconnects included, with connected already true, and before any
\* quote_request of that client is handled.
Claim_C5 ==
    /\ \A c \in Clients :
        /\ sessions[c] > 0 => onConnectCalls[c] = 1
        /\ hookSawFlag[c]
    /\ \A r \in Requests : onConnectCalls[reqs[r].client] >= 1

\* C6: a quote_request whose payload lacks a required key fails only that
\* event: on_quote_request is not invoked for it, nothing is emitted for it
\* then or later, and the step changes neither connected, the channel
\* handle, any channel nor any other request.
Thm_C6 ==
    [][/\ (Len(reqs') = Len(reqs) + 1 /\ QuoteRaises(reqs'[Len(reqs')].data)) =>
            /\ reqs'[Len(reqs')].status = "decode_failed"
            /\ connected' = connected
            /\ sio' = sio
            /\ chan' = chan
            /\ emitted' = emitted
            /\ \A r \in Requests : reqs'[r] = reqs[r]
       /\ \A r \in Requests :
            reqs[r].status = "decode_failed" =>
                reqs'[r] = reqs[r] /\ EmissionsOf(r)' = {}]_vars

\* a request received after a malformed one has been answered on an open
\* channel
Wit_C6 ==
    \E r1, r2 \in Requests :
        /\ r1 < r2
        /\ reqs[r1].status = "decode_failed"
        /\ \E i \in EmissionsOf(r2) : emitted[i].open
        /\ connected

\* C7: when on_quote_request fails for a request, nothing is emitted for
\* that request then or later, and the failing step changes neither
\* connected, the channel handle, any channel nor any other request, so the
\* other handlers in flight stay in flight.
Thm_C7 ==
    [][\A r \in Requests :
        /\ (reqs[r].status = "handling" /\ reqs'[r].status = "handler_failed") =>
            /\ connected' = connected
            /\ sio' = sio
            /\ chan' = chan
            /\ emitted' = emitted
            /\ \A q \in Requests \ {r} : reqs'[q] = reqs[q]
        /\ reqs[r].status = "handler_failed" =>
            reqs'[r] = reqs[r] /\ EmissionsOf(r)' = {}]_vars

\* a handler that was in flight when another one failed has emitted its
\* response on an open channel
Wit_C7 ==
    \E r \in Requests :
        /\ reqs[r].status = "handler_failed"
        /\ \E q \in reqs[r].peers : \E i \in EmissionsOf(q) : emitted[i].open

\* C8: every emitted quote_response belongs to a request received earlier
\* whose handler has completed, and carries that request's wire id and
\* exactly the amounts its own handler returned.
Thm_C8 ==
    \A i \in Emissions :
        /\ emitted[i].req \in Requests
        /\ LET q == reqs[emitted[i].req]
               resp == emitted[i].response
           IN /\ q.status = "sent"
              /\ q.result \in AmountPairs
              /\ resp.id = q.data["id"]
              /\ resp.intermediate_amount = q.result[1]
              /\ resp.egress_amount = q.result[2]

\* two requests with different ids were in flight together, their handlers
\* returned different amounts, and the later one was answered first
Wit_C8 ==
    /\ Len(emitted) = 2
    /\ emitted[1].req = 2
    /\ emitted[2].req = 1
    /\ emitted[1].response.id # emitted[2].response.id
    /\ emitted[1].response.egress_amount # emitted[2].response.egress_amount

\* C9: each quote_request leads to at most one quote_response emit, so the
\* emits never outnumber the requests received.
Thm_C9 ==
    /\ \A r \in Requests : Cardinality(EmissionsOf(r)) <= 1
    /\ Len(emitted) <= Len(reqs)

Wit_C9 ==
    /\ Len(reqs) >= 2
    /\ \A r \in Requests : Cardinality(EmissionsOf(r)) = 1

\* C10: send_quote never changes connected; called while connected is false
\* it emits nothing and changes nothing but the finished request; and the
\* emits of a request whose send_quote has run never change afterwards, so a
\* dropped response is not emitted later.
Thm_C10 ==
    [][\A r \in Requests :
        /\ (reqs[r].status = "handling" /\ reqs'[r].status = "sent") =>
            /\ connected' = connected
            /\ ~connected =>
                /\ emitted' = emitted
                /\ UNCHANGED <<sio, chan, sessions, call, waitOn, raised,
                               onConnectCalls, hookSawFlag, discOn>>
        /\ reqs[r].status = "sent" => EmissionsOf(r)' = EmissionsOf(r)]_vars

\* a response was dropped and the instance is connected again on an open
\* channel
Wit_C10 ==
    \E r \in Requests :
        /\ reqs[r].status = "sent"
        /\ EmissionsOf(r) = {}
        /\ connected
        /\ sio # None
        /\ chan[sio] = "open"

\* C11: handling a quote_request never blocks the next one: whatever
\* handlers are in flight, an open channel can still deliver a further
\* quote_request, and every handler in flight can complete on its own.
Thm_C11 ==
    /\ \A c \in Clients :
        (chan[c] = "open" /\ Len(reqs) < MaxReqs) =>
            ENABLED quote_request(c, Payload("b", {}))
    /\ \A r \in InFlight :
        ENABLED on_quote_request_returns(r, <<"100", "200">>)

\* request B, received while the handler of A was suspended, has been
\* answered on an open channel and A's handler is still suspended
Wit_C11 ==
    /\ Len(reqs) = 2
    /\ reqs[1].status = "handling"
    /\ \E i \in EmissionsOf(2) : emitted[i].open

\* C12: disconnect() requests a channel close only on a connected
\* instance, on the current handle, and ends with connected false; on an
\* instance that is not connected it can only return without a change, so
\* a second disconnect() in a row changes nothing.
Thm_C12 ==
    /\ [][/\ (discOn = None /\ discOn' # None) =>
                /\ connected
                /\ sio # None
                /\ discOn' = sio
                /\ chan'[sio] \notin {"open", "lost"}
          /\ (discOn # None /\ discOn' = None) => ~connected']_vars
    /\ []((~connected \/ sio = None) =>
            (~ENABLED disconnect /\ ENABLED disconnect_noop))

\* a disconnect() has completed on a session that was open
Wit_C12 ==
    /\ discOn = None
    /\ ~connected
    /\ sio # None
    /\ chan[sio] = "closed"
    /\ sessions[sio] > 0

\* C13: when signing fails in connect(), no channel connect is attempted
\* for that call, its connect event handler never runs (on_connect is not
\* invoked, connected is not set by it), and the call raises.
Thm_C13 ==
    \A c \in Clients :
        raised[c] = "SigningError" =>
            /\ call[c] = "failed"
            /\ chan[c] = "new"
            /\ auth[c] = <<>>
            /\ presented[c] = <<>>
            /\ sessions[c] = 0
            /\ onConnectCalls[c] = 0
            /\ connected => \E d \in Clients \ {c} : sessions[d] > 0

Wit_C13 ==
    \E c \in Clients :
        raised[c] = "SigningError" /\ sio = c /\ ~connected /\ call[c] = "failed"

\* C14: once the channel has confirmed the connection, the connect() call
\* does not return while its session is still connected.
Claim_C14 ==
    \A c \in Clients : call[c] = "returned" => chan[c] # "open"

\* C17: at most one channel opened by the instance is open at any time, so
\* quote_request events are handled for at most one channel.
Claim_C17 == Cardinality({c \in Clients : chan[c] = "open"}) <= 1

\* C18: a failed connect() leaves the channel handle as it was: on a
\* connected instance self.sio is never the client of a connect() call that
\* failed.
Claim_C18 ==
    \A c \in Clients : (call[c] = "failed" /\ connected) => sio # c

\* C15: every establishment of the channel of a connect() call, reconnects
\* included, presents an auth payload of its own: no (timestamp, signature)
\* is presented for two establishments.
Claim_C15 ==
    \A c \in Clients :
        \A i, j \in 1..Len(presented[c]) :
            i # j =>
                \/ presented[c][i].timestamp # presented[c][j].timestamp
                \/ presented[c][i].signature # presented[c][j].signature

\* the number a string of decimal digit bytes stands for
RECURSIVE ParseDec(_)
ParseDec(bytes) ==
    IF bytes = <<>> THEN 0
    ELSE 10 * ParseDec(SubSeq(bytes, 1, Len(bytes) - 1))
         + (bytes[Len(bytes)] - 48)

IsDecimal(bytes) ==
    /\ Len(bytes) >= 1
    /\ \A k \in 1..Len(bytes) : bytes[k] \in 48..57
    /\ Len(bytes) > 1 => bytes[1] # 48

\* b is a followed by one or more decimal digits
DigitExtension(a, b) ==
    /\ Len(b) > Len(a)
    /\ SubSeq(b, 1, Len(a)) = a
    /\ \A k \in (Len(a) + 1)..Len(b) : \E d \in 1..10 : Digits[d] = b[k]

\* C16: the signed message is exactly the bytes of market_maker_id followed
\* by the decimal string of the timestamp, and for one identity and key two
\* distinct timestamps give different messages and different signatures.
Thm_C16 ==
    signOut # <<>> =>
        /\ \A k \in 1..2 :
            LET id == signIn[k].id
                msg == signOut[k].message
                tail == SubSeq(msg, Len(id) + 1, Len(msg))
            IN /\ SubSeq(msg, 1, Len(id)) = Utf8(id)
               /\ IsDecimal(tail)
               /\ ParseDec(tail) = signIn[k].timestamp
        /\ (/\ signIn[1].id = signIn[2].id
            /\ signIn[1].key = signIn[2].key
            /\ signIn[1].timestamp # signIn[2].timestamp) =>
                /\ signOut[1].message # signOut[2].message
                /\ signOut[1].signature # signOut[2].signature

\* one identity and key signed with a one-digit and a two-digit timestamp
Wit_C16 ==
    /\ signOut # <<>>
    /\ signIn[1].id = signIn[2].id
    /\ signIn[1].key = signIn[2].key
    /\ signIn[1].timestamp < 10
    /\ signIn[2].timestamp >= 10

\* C19 as claimed: any two different pairs (market_maker_id, timestamp) give
\* different signed messages, hence different signatures under one key.
Claim_C19 ==
    (/\ signOut # <<>>
     /\ <<signIn[1].id, signIn[1].timestamp>>
            # <<signIn[2].id, signIn[2].timestamp>>) =>
        signOut[1].message # signOut[2].message

\* C19 as amended: two different pairs give different signed messages, and
\* different signatures under one key, unless one identity is the other
\* followed by decimal digits.
Thm_C19 ==
    (/\ signOut # <<>>
     /\ <<signIn[1].id, signIn[1].timestamp>>
            # <<signIn[2].id, signIn[2].timestamp>>
     /\ ~DigitExtension(signIn[1].id, signIn[2].id)
     /\ ~DigitExtension(signIn[2].id, signIn[1].id)) =>
        /\ signOut[1].message # signOut[2].message
        /\ signIn[1].key = signIn[2].key =>
            signOut[1].signature # signOut[2].signature

\* an identity and a longer one that starts with it, signed with different
\* timestamps
Wit_C19 ==
    /\ signOut # <<>>
    /\ signIn[1].id = <<"m">>
    /\ signIn[2].id = <<"m", "x">>
    /\ signIn[1].timestamp # signIn[2].timestamp
    /\ signIn[1].key = signIn[2].key

\* C20: a step of one Quoter object never changes the connected flag or the
\* channel handle another object reads, and the class attributes keep their
\* defaults False and None.
Thm_C20 ==
    /\ [][\A i \in Objects :
            inst'[i] = inst[i] =>
                /\ GetAttr(i, "connected")' = GetAttr(i, "connected")
                /\ GetAttr(i, "sio")' = GetAttr(i, "sio")]_vars
    /\ [](klass = ClassAttrs)

\* object 1 is connected on an open channel while object 2, in its
\* handshake with a client of its own, still reads the class default False
Wit_C20 ==
    /\ GetAttr(1, "connected")
    /\ inst[1].chan = "open"
    /\ inst[2].connected = <<>>
    /\ ~GetAttr(2, "connected")
    /\ inst[2].chan = "connecting"
    /\ GetAttr(2, "sio") # GetAttr(1, "sio")

TypeOK ==
    /\ connected \in BOOLEAN
    /\ sio \in {None} \cup Clients
    /\ chan \in [Clients -> ChanStates]
    /\ call \in [Clients -> CallStates]
    /\ discOn \in {None} \cup Clients
    /\ Len(reqs) <= MaxReqs
    /\ \A r \in 1..Len(reqs) : reqs[r].status \in ReqStates
    /\ Len(emitted) <= MaxReqs
====
